---- MODULE Spec2Model ----
(***************************************************************************)
(* SolarRally: the telemetry feed of the dashboard (MockFirebaseDB and the *)
(* FirebaseDataProvider that listens to it), the WebSocketProvider and its *)
(* fleet statistics, the dashboard's cost figures and power chart, and    *)
(* the per-unit charging state engine with its power curve.                *)
(*                                                                         *)
(* Energies of the feed are integers in micro-kWh (1e-6 kWh) before        *)
(* rounding and in 1e-4 kWh after Math.round(x * 10000) / 10000.           *)
(***************************************************************************)
EXTENDS Integers, Sequences, FiniteSets, TLC

VARIABLES
  listeners,      \* MockFirebaseDB.listeners: path -> sequence of callbacks
  intervalOn,     \* the setInterval of simulateData is running
  telemetryData,  \* FirebaseDataProvider state
  evseUnits,      \* FirebaseDataProvider state: unit id -> EVSEUnit
  systemStats,    \* FirebaseDataProvider state
  isConnected,    \* FirebaseDataProvider state
  units,          \* engine: unit -> ChargingUnit
  handoff,        \* engine: the session records the last step handed to the
                  \* persistence collaborator, in hand-off order
  finalized,      \* history: session id -> number of times it was handed off
  nextSessionId,  \* engine: the next session identifier to give out
  running,        \* engine: the simulation has not been shut down
  reply,          \* engine: the external command applied since the last tick, with
                  \* its result
  keys,           \* MockFirebaseDB.listeners: its paths in insertion order
                  \* (Object.keys)
  tickNo,         \* history: the number of batches the interval callback has
                  \* generated for the listeners of ListenerNames
  held,           \* history: listener -> number of the batch it holds (0: none)
  handed,         \* history: listener -> times the last publish invoked it
  afterOff,       \* history: the listeners the last publish invoked after the
                  \* off() that removed them had returned
  since,          \* history: listener -> when it was registered
  ws,             \* WebSocketProvider state: the socket it holds, or null
  sock,           \* socket -> readyState of the WebSockets connect() created
  wsMounted,      \* the WebSocketProvider is mounted
  wsTelemetry,    \* WebSocketProvider state telemetryData
  wsUnits,        \* WebSocketProvider state evseUnits: unit id -> EVSEUnit
  wsStats,        \* WebSocketProvider state systemStats
  wsConnected,    \* WebSocketProvider state isConnected
  wsError,        \* WebSocketProvider state connectionError
  curve,          \* Power Curve Model: an input and the power returned for it
  chartData,      \* PowerChart state: the points of the chart
  chartUpdates    \* history: the number of telemetry updates the chart was given

feedVars == <<listeners, intervalOn, telemetryData, evseUnits, systemStats, isConnected>>
engineVars == <<units, handoff, finalized, nextSessionId, running, reply>>
hubVars == <<tickNo, held, handed, afterOff, since>>
wsVars == <<ws, sock, wsMounted, wsTelemetry, wsUnits, wsStats, wsConnected, wsError>>
vars == <<listeners, intervalOn, telemetryData, evseUnits, systemStats, isConnected,
          units, handoff, finalized, nextSessionId, running, reply,
          keys, tickNo, held, handed, afterOff, since,
          ws, sock, wsMounted, wsTelemetry, wsUnits, wsStats, wsConnected, wsError,
          curve, chartData, chartUpdates>>

Null == 0

(***************************************************************************)
(* MockFirebaseDB                                                          *)
(***************************************************************************)

Paths == {"latest_telemetry", "system_stats", "evse_units"}

MockUnitCount == 3

MockUnitIds == 1..MockUnitCount

\* Math.round(x * 10000) / 10000 of a micro-kWh value, in 1e-4 kWh
Round4(x) == (x + 50) \div 100

\* the session ids `sess_${Math.floor(Math.random() * 9000) + 1000}` can take
SessionIdDraws == {1000, 1001}

\* scenarios with the session id of the preparing scenario left null
scenariosNoPreparingId(sidCharging, sidPreparing) ==
  << [status |-> "charging", voltageRange |-> <<220, 240>>, currentRange |-> <<15, 32>>,
      energySource |-> <<"solar", "grid", "solar">>, sessionId |-> sidCharging],
     [status |-> "available", voltageRange |-> <<220, 240>>, currentRange |-> <<0, 0>>,
      energySource |-> <<"none">>, sessionId |-> Null],
     [status |-> "preparing", voltageRange |-> <<220, 240>>, currentRange |-> <<0, 5>>,
      energySource |-> <<"solar">>, sessionId |-> Null] >>

scenarios(sidCharging, sidPreparing) ==
  << [status |-> "charging", voltageRange |-> <<220, 240>>, currentRange |-> <<15, 32>>,
      energySource |-> <<"solar", "grid", "solar">>, sessionId |-> sidCharging],
     [status |-> "available", voltageRange |-> <<220, 240>>, currentRange |-> <<0, 0>>,
      energySource |-> <<"none">>, sessionId |-> Null],
     [status |-> "preparing", voltageRange |-> <<220, 240>>, currentRange |-> <<0, 5>>,
      energySource |-> <<"solar">>, sessionId |-> sidPreparing] >>

\* Math.random() * (hi - lo) + lo lies in [lo, hi), and is lo when hi = lo
InRange(x, range) == x = range[1] \/ (range[1] <= x /\ x < range[2])

\* one unit's random draws: scenario index, voltage (V), current (A), index
\* into energySource, sessionTime (tenths of an hour, 0.1 .. 2.5),
\* temperature (tenths of a degree) and the unit number of unit_id; the draws
\* are real numbers, and frac is what they leave of sessionTime * energyRate
\* below 0.0001 kWh (in micro-kWh)
ValidDraw(d) ==
  LET scenario == scenarios(1000, 1000)[d.scenario]
  IN  /\ InRange(d.voltage, scenario.voltageRange)
      /\ InRange(d.current, scenario.currentRange)
      /\ d.srcIdx \in 1..Len(scenario.energySource)
      /\ d.t \in 1..24
      /\ d.frac \in 0..99
      /\ d.temp \in 200..450
      /\ d.uid \in 1..3

generateTelemetry(scen, d) ==
  LET scenario == scen[d.scenario]
      power == d.voltage * d.current
      energySource == scenario.energySource[d.srcIdx]
      \* sessionTime * energyRate, in micro-kWh
      base == d.t * power * 100 + d.frac
      solarEnergy == IF energySource = "solar" THEN base
                     ELSE IF energySource = "grid" THEN (base * 2) \div 10
                     ELSE 0
      gridEnergy == IF energySource = "solar" THEN base \div 10
                    ELSE IF energySource = "grid" THEN (base * 8) \div 10
                    ELSE 0
  IN  [ session_id |-> scenario.sessionId,
        voltage_v |-> d.voltage,
        current_a |-> d.current,
        power_w |-> power,
        session_energy_kwh_solar |-> Round4(solarEnergy),
        session_energy_kwh_grid |-> Round4(gridEnergy),
        session_total_energy_kwh |-> Round4(solarEnergy + gridEnergy),
        energy_source |-> energySource,
        temperature_c |-> d.temp,
        status |-> scenario.status,
        unit_id |-> d.uid ]

RECURSIVE SumOver(_, _, _)
SumOver(f, S, field) ==
  IF S = {} THEN 0
  ELSE LET x == CHOOSE y \in S : TRUE
       IN  f[x].telemetry[field] + SumOver(f, S \ {x}, field)

CountWhere(f, S, field, value) == Cardinality({x \in S : f[x].telemetry[field] = value})

\* the systemStats block of generateMockData; avgTemp is its own random draw
mockSystemStats(us, avgTemp) ==
  LET totalPower == SumOver(us, DOMAIN us, "power_w")
      totalSolar == SumOver(us, DOMAIN us, "session_energy_kwh_solar")
      totalGrid == SumOver(us, DOMAIN us, "session_energy_kwh_grid")
      totalEnergy == totalSolar + totalGrid
      \* Math.round(solarPercentage * 10) / 10, in tenths of a percent
      solarPercentage == IF totalEnergy > 0
                         THEN (2000 * totalSolar + totalEnergy) \div (2 * totalEnergy)
                         ELSE 0
  IN  [ total_power_w |-> totalPower,
        total_solar_energy_kwh |-> totalSolar,
        total_grid_energy_kwh |-> totalGrid,
        total_energy_kwh |-> totalEnergy,
        avg_temperature_c |-> avgTemp,
        solar_percentage |-> solarPercentage,
        active_sessions |-> Cardinality({x \in DOMAIN us : us[x].telemetry.session_id # Null}),
        available_units |-> CountWhere(us, DOMAIN us, "status", "available"),
        charging_units |-> CountWhere(us, DOMAIN us, "status", "charging"),
        faulted_units |-> 0 ]

generateMockData(sidCharging, sidPreparing, draws, avgTemp) ==
  LET scen == scenarios(sidCharging, sidPreparing)
      us == [i \in MockUnitIds |->
               [unit_id |-> i, telemetry |-> generateTelemetry(scen, draws[i])]]
  IN  [ latest_telemetry |-> us[1].telemetry,
        system_stats |-> mockSystemStats(us, avgTemp),
        evse_units |-> us ]

DataFor(mockData, path) ==
  IF path = "latest_telemetry" THEN mockData.latest_telemetry
  ELSE IF path = "system_stats" THEN mockData.system_stats
  ELSE mockData.evse_units

(***************************************************************************)
(* FirebaseDataProvider: the three listeners of its effect, named by the   *)
(* state setter each one calls                                             *)
(***************************************************************************)

NoData == [empty |-> TRUE]

NoUnits == <<>>

\* the paths on which callback cb is registered
PathsOf(cb) == {p \in Paths : \E i \in 1..Len(listeners[p]) : listeners[p][i] = cb}

\* Object.keys(listeners) after ref(path).on(): a path that is new goes last
KeysOn(ks, path) ==
  IF \E i \in 1..Len(ks) : ks[i] = path THEN ks ELSE Append(ks, path)

\* ref(path).on('value', callback)
RefOn(ls, path, cb) == [ls EXCEPT ![path] = Append(@, cb)]

\* an off() that removes only the listener registered last
RefOffRemovesLast(ls, path) ==
  [ls EXCEPT ![path] = IF @ = <<>> THEN @ ELSE SubSeq(@, 1, Len(@) - 1)]

\* ref(path).off()
RefOff(ls, path) == [ls EXCEPT ![path] = <<>>]

\* useEffect of FirebaseDataProvider: register the listeners, start the feed
Mount ==
  /\ ~isConnected
  /\ ~intervalOn
  /\ isConnected' = TRUE
  /\ listeners' = RefOn(RefOn(RefOn(listeners, "latest_telemetry", "setTelemetryData"),
                              "system_stats", "setSystemStats"),
                        "evse_units", "setEvseUnits")
  /\ keys' = KeysOn(KeysOn(KeysOn(keys, "latest_telemetry"), "system_stats"), "evse_units")
  /\ intervalOn' = TRUE
  /\ UNCHANGED <<telemetryData, evseUnits, systemStats, units, handoff, finalized,
                 nextSessionId, running, reply>>
  /\ UNCHANGED <<hubVars, wsVars, curve, chartData, chartUpdates>>

\* the cleanup the effect returns; the interval is never cleared
Unmount ==
  /\ isConnected
  /\ listeners # [p \in Paths |-> <<>>]
  /\ listeners' = RefOff(RefOff(RefOff(listeners, "latest_telemetry"), "system_stats"),
                         "evse_units")
  /\ UNCHANGED <<intervalOn, telemetryData, evseUnits, systemStats, isConnected, units,
                 handoff, finalized, nextSessionId, running, reply>>
  /\ UNCHANGED <<keys, hubVars, wsVars, curve, chartData, chartUpdates>>

\* the setInterval callback of simulateData: generate, then notify every
\* listener of every path with that path's part of the data
SimulateTick(drawSet, avgTemps) ==
  /\ intervalOn
  /\ \E sidCharging \in SessionIdDraws, sidPreparing \in SessionIdDraws,
        draws \in [MockUnitIds -> drawSet], avgTemp \in avgTemps :
       LET mockData == generateMockData(sidCharging, sidPreparing, draws, avgTemp)
       IN  /\ telemetryData' =
                IF PathsOf("setTelemetryData") = {} THEN telemetryData
                ELSE DataFor(mockData, CHOOSE p \in PathsOf("setTelemetryData") : TRUE)
           /\ systemStats' =
                IF PathsOf("setSystemStats") = {} THEN systemStats
                ELSE DataFor(mockData, CHOOSE p \in PathsOf("setSystemStats") : TRUE)
           /\ evseUnits' =
                IF PathsOf("setEvseUnits") = {} THEN evseUnits
                ELSE DataFor(mockData, CHOOSE p \in PathsOf("setEvseUnits") : TRUE)
  /\ UNCHANGED <<listeners, intervalOn, isConnected, units, handoff, finalized,
                 nextSessionId, running, reply>>
  /\ UNCHANGED <<keys, hubVars, wsVars, curve, chartData, chartUpdates>>

\* draws of the feed: an available unit, a unit charging from solar for a
\* little over 0.1 h (0.330046 kWh), a unit charging from the grid for 2.4 h,
\* and a preparing unit
FeedDraws ==
  {d \in [scenario : 1..3, voltage : {220}, current : {0, 4, 15}, srcIdx : 1..2,
          t : {1, 24}, frac : {0, 46}, temp : {250}, uid : {1}] :
     /\ ValidDraw(d)
     /\ d.t = 24 <=> d.srcIdx = 2
     /\ d.frac = 46 <=> (d.scenario = 1 /\ d.srcIdx = 1)}

AvgTempDraws == {300}

FeedTick == SimulateTick(FeedDraws, AvgTempDraws)

(***************************************************************************)
(* MockFirebaseDB under listeners that fail or call back into it.  A batch *)
(* of the interval callback is named by its number; what a listener is     *)
(* handed is the part of that batch for its path.                          *)
(***************************************************************************)

\* "plain" keeps what it is handed, as the listeners of FirebaseDataProvider
\* do; "thrower" throws when it is handed a value; "remover" calls
\* ref(path).off() on its own path; "adder" calls ref(AdderPath).on(plain)
ListenerNames == {"plain", "thrower", "remover", "adder"}

HubPaths == {"latest_telemetry", "system_stats"}

AdderPath == "system_stats"

MaxTicks == 2

Never == [batch |-> -1, publishing |-> FALSE]

\* callback s is in the array of some path
Registered(ls, s) == \E p \in Paths : \E i \in 1..Len(ls[p]) : ls[p][i] = s

\* an invocation that leaves a listener the first batch it was handed
InvokeKeepsFirst(st, path, s, n) ==
  [st EXCEPT !.handed[s] = @ + 1, !.held[s] = IF @ = 0 THEN n ELSE @]

\* the interval callback invokes listener s, found in the array of path,
\* with batch n
Invoke(st, path, s, n) ==
  LET called == [st EXCEPT !.handed[s] = @ + 1,
                           !.afterOff = IF \E i \in 1..Len(st.ls[path]) : st.ls[path][i] = s
                                        THEN @ ELSE @ \cup {s}]
  IN  CASE s = "thrower" -> [called EXCEPT !.thrown = TRUE]
        [] s = "remover" -> [called EXCEPT !.held[s] = n, !.ls = RefOff(@, path)]
        [] s = "adder" ->
             IF Registered(called.ls, "plain") THEN [called EXCEPT !.held[s] = n]
             ELSE [called EXCEPT !.held[s] = n,
                                 !.ls = RefOn(@, AdderPath, "plain"),
                                 !.ks = KeysOn(@, AdderPath),
                                 !.since["plain"] = [batch |-> n, publishing |-> TRUE]]
        [] OTHER -> [called EXCEPT !.held[s] = n]

\* this.listeners[path].forEach(callback => ...): it visits the elements the
\* array had when forEach was called, and an exception ends it
RECURSIVE PublishPath(_, _, _, _, _)
PublishPath(st, path, arr, i, n) ==
  IF i > Len(arr) \/ st.thrown THEN st
  ELSE PublishPath(Invoke(st, path, arr[i], n), path, arr, i + 1, n)

\* Object.keys(this.listeners).forEach(path => ...): the paths are those the
\* object had when the callback started, each array is read when its path is
\* reached
RECURSIVE PublishKeys(_, _, _, _)
PublishKeys(st, ks, k, n) ==
  IF k > Len(ks) \/ st.thrown THEN st
  ELSE PublishKeys(PublishPath(st, ks[k], st.ls[ks[k]], 1, n), ks, k + 1, n)

\* mockDB.simulateData()
HubStart ==
  /\ ~intervalOn
  /\ intervalOn' = TRUE
  /\ UNCHANGED <<listeners, telemetryData, evseUnits, systemStats, isConnected, engineVars,
                 keys, hubVars, wsVars, curve, chartData, chartUpdates>>

\* a registration that hands the new listener the last batch published
HubOnReplays(s, p) ==
  /\ since[s] = Never
  /\ ~Registered(listeners, s)
  /\ listeners' = RefOn(listeners, p, s)
  /\ keys' = KeysOn(keys, p)
  /\ since' = [since EXCEPT ![s] = [batch |-> tickNo, publishing |-> FALSE]]
  /\ held' = [held EXCEPT ![s] = tickNo]
  /\ UNCHANGED <<intervalOn, telemetryData, evseUnits, systemStats, isConnected, engineVars,
                 tickNo, handed, afterOff, wsVars, curve, chartData, chartUpdates>>

\* mockDB.ref(p).on('value', s), called between two runs of the interval
\* callback
HubOn(s, p) ==
  /\ since[s] = Never
  /\ ~Registered(listeners, s)
  /\ listeners' = RefOn(listeners, p, s)
  /\ keys' = KeysOn(keys, p)
  /\ since' = [since EXCEPT ![s] = [batch |-> tickNo, publishing |-> FALSE]]
  /\ UNCHANGED <<intervalOn, telemetryData, evseUnits, systemStats, isConnected, engineVars,
                 tickNo, held, handed, afterOff, wsVars, curve, chartData, chartUpdates>>

\* mockDB.ref(p).off(), called between two runs of the interval callback
HubOff(p) ==
  /\ listeners[p] # <<>>
  /\ listeners' = RefOff(listeners, p)
  /\ UNCHANGED <<intervalOn, telemetryData, evseUnits, systemStats, isConnected, engineVars,
                 keys, hubVars, wsVars, curve, chartData, chartUpdates>>

\* the setInterval callback of simulateData with the listeners of
\* ListenerNames registered
HubTick ==
  /\ intervalOn
  /\ tickNo < MaxTicks
  /\ LET n == tickNo + 1
         st == PublishKeys([ls |-> listeners, ks |-> keys, held |-> held,
                            handed |-> [s \in ListenerNames |-> 0], afterOff |-> {},
                            since |-> since, thrown |-> FALSE], keys, 1, n)
     IN  /\ tickNo' = n
         /\ listeners' = st.ls
         /\ keys' = st.ks
         /\ held' = st.held
         /\ handed' = st.handed
         /\ afterOff' = st.afterOff
         /\ since' = st.since
  /\ UNCHANGED <<intervalOn, telemetryData, evseUnits, systemStats, isConnected, engineVars,
                 wsVars, curve, chartData, chartUpdates>>

(***************************************************************************)
(* WebSocketProvider.  A session id is kept as the parts that              *)
(* session_id.split('_') yields, a null session id as the empty sequence;  *)
(* a unit_id that the message does not carry is the empty string.          *)
(* Energies are in 1e-4 kWh, temperatures in tenths of a degree, the       *)
(* percentage in tenths of a percent.                                      *)
(***************************************************************************)

MaxStamp == 2

NoSessionId == <<>>

\* the messages the backend sends, before their timestamp is set
WsReadings ==
  { [unit_id |-> "evse_unit_01", session_id |-> NoSessionId, status |-> "available",
     power_w |-> 0, session_energy_kwh_solar |-> 0, session_energy_kwh_grid |-> 0,
     temperature_c |-> 250],
    [unit_id |-> "evse_unit_01", session_id |-> <<"sess", "a1">>, status |-> "charging",
     power_w |-> 7000, session_energy_kwh_solar |-> 2000, session_energy_kwh_grid |-> 1000,
     temperature_c |-> 315],
    [unit_id |-> "evse_unit_02", session_id |-> <<"sess", "b2">>, status |-> "charging",
     power_w |-> 3000, session_energy_kwh_solar |-> 1000, session_energy_kwh_grid |-> 5000,
     temperature_c |-> 300],
    [unit_id |-> "evse_unit_02", session_id |-> NoSessionId, status |-> "faulted",
     power_w |-> 0, session_energy_kwh_solar |-> 0, session_energy_kwh_grid |-> 0,
     temperature_c |-> 400],
    [unit_id |-> "", session_id |-> <<"sess", "b2">>, status |-> "charging",
     power_w |-> 3000, session_energy_kwh_solar |-> 1000, session_energy_kwh_grid |-> 5000,
     temperature_c |-> 300],
    [unit_id |-> "", session_id |-> <<"evse", "unit", "02", "sess", "c3">>,
     status |-> "charging",
     power_w |-> 7000, session_energy_kwh_solar |-> 4000, session_energy_kwh_grid |-> 0,
     temperature_c |-> 315],
    [unit_id |-> "", session_id |-> NoSessionId, status |-> "available",
     power_w |-> 0, session_energy_kwh_solar |-> 0, session_energy_kwh_grid |-> 0,
     temperature_c |-> 250] }

\* Date.now() when a message arrives
NowDraws == {0, 5000}

\* sessionParts[i] of JavaScript, counted from 1
PartAt(parts, i) == IF i <= Len(parts) THEN parts[i] ELSE "undefined"

\* unitNumber.toString().padStart(2, '0') for the unit numbers 1..3
PadStart2(n) == CASE n = 1 -> "01" [] n = 2 -> "02" [] n = 3 -> "03"

\* the unit id that onmessage files a message under
UnitIdOf(data, now) ==
  LET sessionParts == data.session_id
      byDefault == IF data.unit_id # "" THEN data.unit_id ELSE "evse_unit_01"
  IN  IF data.unit_id = "" /\ data.session_id # NoSessionId /\ Len(sessionParts) >= 2
      THEN IF PartAt(sessionParts, 1) = "evse" /\ PartAt(sessionParts, 2) = "unit"
           THEN PartAt(sessionParts, 1) \o "_" \o PartAt(sessionParts, 2) \o "_"
                  \o PartAt(sessionParts, 3)
           ELSE IF PartAt(sessionParts, 1) = "sess"
                THEN "evse_unit_" \o PadStart2(((now \div 5000) % 3) + 1)
                ELSE byDefault
      ELSE byDefault

\* newUnits.set(unitId, entry) on a copy of the map
MapSet(m, k, v) == [x \in DOMAIN m \cup {k} |-> IF x = k THEN v ELSE m[x]]

\* a calculateSystemStats that reports 100 percent when there is no energy
calculateSystemStatsFullWhenIdle(us) ==
  IF DOMAIN us = {} THEN
    [ total_power_w |-> 0, total_solar_energy_kwh |-> 0, total_grid_energy_kwh |-> 0,
      total_energy_kwh |-> 0, avg_temperature_c |-> 0, solar_percentage |-> 0,
      active_sessions |-> 0, available_units |-> 0, charging_units |-> 0,
      faulted_units |-> 0 ]
  ELSE
    LET total_solar == SumOver(us, DOMAIN us, "session_energy_kwh_solar")
        total_grid == SumOver(us, DOMAIN us, "session_energy_kwh_grid")
        total_temperature_c == SumOver(us, DOMAIN us, "temperature_c")
        length == Cardinality(DOMAIN us)
        total_energy_kwh == total_solar + total_grid
        solar_percentage == IF total_energy_kwh > 0
                            THEN (2000 * total_solar + total_energy_kwh)
                                   \div (2 * total_energy_kwh)
                            ELSE 1000
    IN  [ total_power_w |-> SumOver(us, DOMAIN us, "power_w"),
          total_solar_energy_kwh |-> total_solar,
          total_grid_energy_kwh |-> total_grid,
          total_energy_kwh |-> total_energy_kwh,
          avg_temperature_c |-> (2 * total_temperature_c + length) \div (2 * length),
          solar_percentage |-> solar_percentage,
          active_sessions |->
            Cardinality({x \in DOMAIN us : us[x].telemetry.session_id # NoSessionId}),
          available_units |-> CountWhere(us, DOMAIN us, "status", "available"),
          charging_units |-> CountWhere(us, DOMAIN us, "status", "charging"),
          faulted_units |-> CountWhere(us, DOMAIN us, "status", "faulted") ]

\* calculateSystemStats; toFixed(1) of the mean temperature and of the
\* percentage round to the nearest tenth
calculateSystemStats(us) ==
  IF DOMAIN us = {} THEN
    [ total_power_w |-> 0, total_solar_energy_kwh |-> 0, total_grid_energy_kwh |-> 0,
      total_energy_kwh |-> 0, avg_temperature_c |-> 0, solar_percentage |-> 0,
      active_sessions |-> 0, available_units |-> 0, charging_units |-> 0,
      faulted_units |-> 0 ]
  ELSE
    LET total_solar == SumOver(us, DOMAIN us, "session_energy_kwh_solar")
        total_grid == SumOver(us, DOMAIN us, "session_energy_kwh_grid")
        total_temperature_c == SumOver(us, DOMAIN us, "temperature_c")
        length == Cardinality(DOMAIN us)
        total_energy_kwh == total_solar + total_grid
        solar_percentage == IF total_energy_kwh > 0
                            THEN (2000 * total_solar + total_energy_kwh)
                                   \div (2 * total_energy_kwh)
                            ELSE 0
    IN  [ total_power_w |-> SumOver(us, DOMAIN us, "power_w"),
          total_solar_energy_kwh |-> total_solar,
          total_grid_energy_kwh |-> total_grid,
          total_energy_kwh |-> total_energy_kwh,
          avg_temperature_c |-> (2 * total_temperature_c + length) \div (2 * length),
          solar_percentage |-> solar_percentage,
          active_sessions |->
            Cardinality({x \in DOMAIN us : us[x].telemetry.session_id # NoSessionId}),
          available_units |-> CountWhere(us, DOMAIN us, "status", "available"),
          charging_units |-> CountWhere(us, DOMAIN us, "status", "charging"),
          faulted_units |-> CountWhere(us, DOMAIN us, "status", "faulted") ]

\* solarPercentage of EnergySourceIndicator, in tenths of a percent, not rounded
\* by the component: the model keeps the tenth below
IndicatorSolarPercentage(t) ==
  LET totalEnergy == t.session_energy_kwh_solar + t.session_energy_kwh_grid
  IN  IF totalEnergy > 0 THEN (t.session_energy_kwh_solar * 1000) \div totalEnergy ELSE 0

MaxSockets == 2

SocketIds == 1..MaxSockets

\* ws = null
NoSocket == 0

\* readyState CONNECTING or OPEN
Live(k) == sock[k] \in {"connecting", "open"}

\* connect(), the WebSocket constructor returning a socket: nothing is done
\* about a socket created earlier
WsConnect ==
  /\ wsMounted
  /\ \E k \in SocketIds :
       /\ sock[k] = "none"
       /\ \A j \in SocketIds : j < k => sock[j] # "none"
       /\ sock' = [sock EXCEPT ![k] = "connecting"]
       /\ ws' = k
  /\ wsError' = "null"
  /\ UNCHANGED <<wsMounted, wsTelemetry, wsUnits, wsStats, wsConnected, feedVars,
                 engineVars, keys, hubVars, curve, chartData, chartUpdates>>

\* connect(), the WebSocket constructor throwing
WsConnectThrows ==
  /\ wsMounted
  /\ wsError' = "Unable to establish WebSocket connection"
  /\ wsConnected' = FALSE
  /\ UNCHANGED <<ws, sock, wsMounted, wsTelemetry, wsUnits, wsStats, feedVars, engineVars,
                 keys, hubVars, curve, chartData, chartUpdates>>

\* websocket.onopen of socket k; the state setters of an unmounted provider
\* do nothing
WsOpen(k) ==
  /\ sock[k] = "connecting"
  /\ sock' = [sock EXCEPT ![k] = "open"]
  /\ wsConnected' = IF wsMounted THEN TRUE ELSE wsConnected
  /\ wsError' = IF wsMounted THEN "null" ELSE wsError
  /\ UNCHANGED <<ws, wsMounted, wsTelemetry, wsUnits, wsStats, feedVars, engineVars, keys,
                 hubVars, curve, chartData, chartUpdates>>

\* an onmessage that computes the statistics from the map before the update
WsMessageStatsOfPrevUnits(k, data, now) ==
  /\ sock[k] = "open"
  /\ wsMounted
  /\ LET unitId == UnitIdOf(data, now)
         newUnits == MapSet(wsUnits, unitId, [unit_id |-> unitId, telemetry |-> data])
     IN  /\ wsTelemetry' = data
         /\ wsUnits' = newUnits
         /\ wsStats' = calculateSystemStats(wsUnits)
  /\ UNCHANGED <<ws, sock, wsMounted, wsConnected, wsError, feedVars, engineVars, keys,
                 hubVars, curve, chartData, chartUpdates>>

\* websocket.onmessage of socket k with a message that parses; on an
\* unmounted provider its state setters do nothing
WsMessage(k, data, now) ==
  /\ sock[k] = "open"
  /\ wsMounted
  /\ LET unitId == UnitIdOf(data, now)
         newUnits == MapSet(wsUnits, unitId, [unit_id |-> unitId, telemetry |-> data])
     IN  /\ wsTelemetry' = data
         /\ wsUnits' = newUnits
         /\ wsStats' = calculateSystemStats(newUnits)
  /\ UNCHANGED <<ws, sock, wsMounted, wsConnected, wsError, feedVars, engineVars, keys,
                 hubVars, curve, chartData, chartUpdates>>

\* websocket.onclose of socket k: it clears ws whichever socket ws holds
WsClose(k) ==
  /\ sock[k] \in {"connecting", "open", "closing"}
  /\ sock' = [sock EXCEPT ![k] = "closed"]
  /\ wsConnected' = IF wsMounted THEN FALSE ELSE wsConnected
  /\ ws' = IF wsMounted THEN NoSocket ELSE ws
  /\ UNCHANGED <<wsMounted, wsTelemetry, wsUnits, wsStats, wsError, feedVars, engineVars,
                 keys, hubVars, curve, chartData, chartUpdates>>

\* websocket.onerror of socket k; on an unmounted provider its state setters
\* do nothing
WsError(k) ==
  /\ Live(k)
  /\ wsMounted
  /\ wsError' = "Failed to connect to real-time data service"
  /\ wsConnected' = FALSE
  /\ UNCHANGED <<ws, sock, wsMounted, wsTelemetry, wsUnits, wsStats, feedVars, engineVars,
                 keys, hubVars, curve, chartData, chartUpdates>>

\* disconnect(): ws.close() on the socket ws holds
WsDisconnect ==
  /\ wsMounted
  /\ ws # NoSocket
  /\ sock' = [sock EXCEPT ![ws] = IF Live(ws) THEN "closing" ELSE @]
  /\ ws' = NoSocket
  /\ UNCHANGED <<wsMounted, wsTelemetry, wsUnits, wsStats, wsConnected, wsError, feedVars,
                 engineVars, keys, hubVars, curve, chartData, chartUpdates>>

\* the cleanup of the effect: the effect ran once, after the first render, so
\* the ws its cleanup reads is the one of that render, the initial null
WsUnmount ==
  /\ wsMounted
  /\ wsMounted' = FALSE
  /\ LET captured == NoSocket
     IN  sock' = IF captured # NoSocket
                 THEN [sock EXCEPT ![captured] = IF Live(captured) THEN "closing" ELSE @]
                 ELSE sock
  /\ UNCHANGED <<ws, wsTelemetry, wsUnits, wsStats, wsConnected, wsError, feedVars,
                 engineVars, keys, hubVars, curve, chartData, chartUpdates>>

\* the backend stamps its messages with the time of their tick, and sends
\* them in the order of the ticks
StampDraws ==
  IF wsTelemetry = NoData THEN {1}
  ELSE {t \in {wsTelemetry.timestamp, wsTelemetry.timestamp + 1} : t <= MaxStamp}

WsReceive ==
  \E k \in SocketIds, r \in WsReadings, t \in StampDraws, now \in NowDraws :
    /\ (now # 0) => (r.unit_id = "" /\ PartAt(r.session_id, 1) = "sess")
    /\ WsMessage(k, r @@ [timestamp |-> t], now)

(***************************************************************************)
(* PowerChart: the history of points it draws.  power is kept in W, as     *)
(* thousandths of the kW the component stores; time is the timestamp of    *)
(* the telemetry, the number of its tick.                                  *)
(***************************************************************************)

ChartWindow == 20

MaxChartUpdates == 23

\* the updates whose power is drawn freely; later ones report no power
ChartVaried == 6

\* newData.slice(0, 20): the first points of the array
SliceFirst(data, n) ==
  IF Len(data) <= n THEN data ELSE SubSeq(data, 1, n)

\* newData.slice(-n): the last n points of the array
SliceLast(data, n) ==
  IF Len(data) <= n THEN data ELSE SubSeq(data, Len(data) - n + 1, Len(data))

\* the telemetry of the next tick that the chart can be given
ChartTelemetryDraws ==
  [timestamp : {chartUpdates + 1},
   power_w : IF chartUpdates < ChartVaried THEN {0, 7000} ELSE {0},
   voltage_v : {220}, current_a : {15}, temperature_c : {250}]

\* the effect of PowerChart, run when telemetryData has changed to t
ChartUpdate(t) ==
  /\ chartUpdates < MaxChartUpdates
  /\ t # NoData
  /\ LET newDataPoint == [time |-> t.timestamp, power |-> t.power_w,
                          voltage |-> t.voltage_v, current |-> t.current_a,
                          temperature |-> t.temperature_c]
         newData == Append(chartData, newDataPoint)
     IN  chartData' = SliceLast(newData, ChartWindow)
  /\ chartUpdates' = chartUpdates + 1
  /\ UNCHANGED <<feedVars, engineVars, keys, hubVars, wsVars, curve>>

ChartTick == \E t \in ChartTelemetryDraws : ChartUpdate(t)

(***************************************************************************)
(* Dashboard cost figures (SessionInfo, StatsGrid)                         *)
(***************************************************************************)

SOLAR_RATE == 10

GRID_RATE == 50

\* the two tariff rates applied to the wrong energy totals
totalCostRatesSwapped(solar, grid) == solar * GRID_RATE + grid * SOLAR_RATE

\* SessionInfo: solarCost + gridCost of one telemetry record
totalCost(solar, grid) == solar * SOLAR_RATE + grid * GRID_RATE

\* StatsGrid: solarCostJMD + gridCostJMD of the fleet aggregate
totalCostJMD(stats) == stats.total_solar_energy_kwh * 10 + stats.total_grid_energy_kwh * 50

(***************************************************************************)
(* Unit State Machine (one per charging unit), with the Power Curve Model, *)
(* the Energy Source Policy, the Fault Model and the Session Accumulator.  *)
(* Power is in tenths of the nominal power; energy is in units of one      *)
(* tenth of the energy a tick delivers at nominal power.                   *)
(***************************************************************************)

NumUnits == 2

MaxSessions == 2

MaxRecovery == 2

Units == 1..NumUnits

Statuses == {"available", "preparing", "charging", "finishing", "faulted"}

ActiveStatuses == {"preparing", "charging", "finishing"}

TerminationReasons == {"complete", "stopped", "fault", "shutdown"}

NominalPower == 10

\* rated capacity x max session hours
MaxTargetEnergy == 12

\* slack of the at-target test
Tolerance == 1

\* ticks of the warm-up and of the ramp-down window
RampSteps == 2

\* fleet load above which the evening window derates
PeakLoadThreshold == 10

\* derate factor of the evening peak, in tenths
PeakDerate == 5

NoSession == [id |-> Null, target |-> 0, renewable |-> 0, utility |-> 0]

IdleUnit == [status |-> "available", session |-> NoSession, ramp |-> 0, recoveryLeft |-> 0,
             power |-> 0, source |-> "none"]

Max(a, b) == IF a >= b THEN a ELSE b

Min(a, b) == IF a <= b THEN a ELSE b

\* a power curve that tapers to zero at the target, without the floor
PowerCurveTaperToZero(phase, delivered, target, nominal) ==
  IF phase # "charging" THEN 0
  ELSE IF delivered * 5 < target * 4 THEN nominal
  ELSE IF delivered <= target
       THEN (nominal * (5 * target - 5 * delivered)) \div target
  ELSE 0

\* Power Curve Model: (phase, elapsed fraction = delivered / target, nominal)
PowerCurve(phase, delivered, target, nominal) ==
  IF phase # "charging" THEN 0
  ELSE IF delivered * 5 < target * 4 THEN nominal
  ELSE IF delivered <= target
       THEN Max((nominal * (21 * target - 20 * delivered)) \div (5 * target), nominal \div 5)
  ELSE 0

\* the Power Curve Model on its own: curve holds the arguments of one call
\* and the power it returned (NotEvaluated before the call)
MaxCurveTarget == 10

NotEvaluated == -1

CurvePhases == {"preparing", "charging", "finishing"}

CurveNominals == {NominalPower, 10 * NominalPower}

CurveInputs ==
  {c \in [phase : CurvePhases, delivered : 0..(MaxCurveTarget + 1), target : 1..MaxCurveTarget,
          nominal : CurveNominals, power : {NotEvaluated}] : c.delivered <= c.target + 1}

\* one call of the power curve on the arguments held
CurveEvaluate ==
  /\ curve.power = NotEvaluated
  /\ curve' = [curve EXCEPT !.power = PowerCurve(curve.phase, curve.delivered, curve.target,
                                                  curve.nominal)]
  /\ UNCHANGED <<feedVars, engineVars, keys, hubVars, wsVars, chartData, chartUpdates>>

\* the next call, after one more unit of energy was delivered
CurveAdvance ==
  /\ curve.power # NotEvaluated
  /\ curve.delivered <= curve.target
  /\ curve' = [curve EXCEPT !.delivered = @ + 1,
                            !.power = PowerCurve(curve.phase, curve.delivered + 1,
                                                 curve.target, curve.nominal)]
  /\ UNCHANGED <<feedVars, engineVars, keys, hubVars, wsVars, chartData, chartUpdates>>

\* renewable availability in tenths: zero outside dawn..dusk (6..18), rising
\* and falling linearly at the edges
RenewableAvailability(hour) ==
  IF hour <= 6 \/ hour >= 18 THEN 0
  ELSE Min(10, 5 * Min(hour - 6, 18 - hour))

\* fraction (tenths) of the demand that availability has to exceed
RenewableFraction == 5

\* an Energy Source Policy that derates only the units on the renewable source
EnergySourcePolicyDeratesRenewableOnly(hour, load) ==
  [ source |-> IF RenewableAvailability(hour) > RenewableFraction
               THEN "renewable" ELSE "utility",
    derate |-> IF /\ load > PeakLoadThreshold /\ hour >= 17 /\ hour < 20
                  /\ RenewableAvailability(hour) > RenewableFraction
               THEN PeakDerate ELSE 10 ]

\* Energy Source Policy: (hour of day, fleet load) -> (source, derate in tenths)
EnergySourcePolicy(hour, load) ==
  [ source |-> IF RenewableAvailability(hour) > RenewableFraction
               THEN "renewable" ELSE "utility",
    derate |-> IF load > PeakLoadThreshold /\ hour >= 17 /\ hour < 20
               THEN PeakDerate ELSE 10 ]

\* fleet load: the nominal power of every unit that is charging
RECURSIVE FleetLoad(_, _)
FleetLoad(us, S) ==
  IF S = {} THEN 0
  ELSE LET u == CHOOSE x \in S : TRUE
       IN  (IF us[u].status = "charging" THEN NominalPower ELSE 0) + FleetLoad(us, S \ {u})

\* Session Accumulator: the whole of power x derate x tick goes to the
\* bucket of the active source
Accumulate(session, power, source, derate) ==
  LET energy == (power * derate) \div 10
  IN  IF source = "renewable"
      THEN [session EXCEPT !.renewable = @ + energy]
      ELSE [session EXCEPT !.utility = @ + energy]

TotalEnergy(session) == session.renewable + session.utility

\* the record handed to the persistence collaborator when a session closes
Finalize(u, session, reason) ==
  [ session_id |-> session.id,
    unit_id |-> u,
    energy_renewable_kwh |-> session.renewable,
    energy_utility_kwh |-> session.utility,
    total_cost |-> totalCost(session.renewable, session.utility),
    termination_reason |-> reason ]

\* a recovery that does not wait for the delay
RecoverIgnoresDelay(unit) ==
  IF unit.status # "faulted" THEN unit ELSE IdleUnit

\* step 1 of a tick: a faulted unit recovers once its delay has elapsed
Recover(unit) ==
  IF unit.status # "faulted" THEN unit
  ELSE IF unit.recoveryLeft <= 1 THEN IdleUnit
  ELSE [unit EXCEPT !.recoveryLeft = @ - 1]

\* a fault that leaves the session on the faulted unit
FaultStepKeepsSession(unit, fault, delay) ==
  IF unit.status \in ActiveStatuses /\ fault
  THEN [unit EXCEPT !.status = "faulted", !.recoveryLeft = delay]
  ELSE unit

\* step 2 of a tick: the Fault Model's draw aborts an active session
FaultStep(unit, fault, delay) ==
  IF unit.status \in ActiveStatuses /\ fault
  THEN [IdleUnit EXCEPT !.status = "faulted", !.recoveryLeft = delay]
  ELSE unit

\* a charging phase that ends where the taper begins, at 80% of the target
PhaseStepFinishesAtTaper(unit, hour, load) ==
  CASE unit.status = "preparing" ->
         IF unit.ramp + 1 >= RampSteps
         THEN [unit EXCEPT !.ramp = RampSteps, !.status = "charging"]
         ELSE [unit EXCEPT !.ramp = @ + 1]
    [] unit.status = "charging" ->
         LET policy == EnergySourcePolicy(hour, load)
             power == PowerCurve("charging", TotalEnergy(unit.session),
                                 unit.session.target, NominalPower)
             session == Accumulate(unit.session, power, policy.source, policy.derate)
         IN  [unit EXCEPT !.session = session,
                          !.power = (power * policy.derate) \div 10,
                          !.source = policy.source,
                          !.status = IF TotalEnergy(session) * 5 >= session.target * 4
                                     THEN "finishing" ELSE "charging"]
    [] unit.status = "finishing" ->
         IF unit.ramp <= 1 THEN IdleUnit
         ELSE [unit EXCEPT !.ramp = @ - 1, !.power = 0, !.source = "none"]
    [] OTHER -> unit

\* steps 4 to 6 of a tick, by the phase the unit is in
PhaseStep(unit, hour, load) ==
  CASE unit.status = "preparing" ->
         IF unit.ramp + 1 >= RampSteps
         THEN [unit EXCEPT !.ramp = RampSteps, !.status = "charging"]
         ELSE [unit EXCEPT !.ramp = @ + 1]
    [] unit.status = "charging" ->
         LET policy == EnergySourcePolicy(hour, load)
             power == PowerCurve("charging", TotalEnergy(unit.session),
                                 unit.session.target, NominalPower)
             session == Accumulate(unit.session, power, policy.source, policy.derate)
         IN  [unit EXCEPT !.session = session,
                          !.power = (power * policy.derate) \div 10,
                          !.source = policy.source,
                          !.status = IF TotalEnergy(session) + Tolerance >= session.target
                                     THEN "finishing" ELSE "charging"]
    [] unit.status = "finishing" ->
         IF unit.ramp <= 1 THEN IdleUnit
         ELSE [unit EXCEPT !.ramp = @ - 1, !.power = 0, !.source = "none"]
    [] OTHER -> unit

\* one tick of one unit
AdvanceUnit(unit, hour, load, fault, delay) ==
  PhaseStep(FaultStep(Recover(unit), fault, delay), hour, load)

\* hand-off records of a tick whose completion test overlooks the fault
ClosedByOverlooksFault(u, unit, hour, load, fault, delay) ==
  LET recovered == Recover(unit)
      faulted == FaultStep(recovered, fault, delay)
      stepped == PhaseStep(recovered, hour, load)
  IN  (IF recovered.session # NoSession /\ faulted.session = NoSession
       THEN <<Finalize(u, recovered.session, "fault")>> ELSE <<>>)
      \o
      (IF recovered.session # NoSession /\ stepped.session = NoSession
       THEN <<Finalize(u, recovered.session, "complete")>> ELSE <<>>)

\* the sessions one tick of unit u closes, as hand-off records
ClosedBy(u, unit, hour, load, fault, delay) ==
  LET recovered == Recover(unit)
      faulted == FaultStep(recovered, fault, delay)
      stepped == PhaseStep(faulted, hour, load)
  IN  (IF recovered.session # NoSession /\ faulted.session = NoSession
       THEN <<Finalize(u, recovered.session, "fault")>> ELSE <<>>)
      \o
      (IF faulted.session # NoSession /\ stepped.session = NoSession
       THEN <<Finalize(u, faulted.session, "complete")>> ELSE <<>>)

RECURSIVE ClosedByAll(_, _, _, _, _)
ClosedByAll(n, us, hour, faults, delays) ==
  IF n = 0 THEN <<>>
  ELSE ClosedByAll(n - 1, us, hour, faults, delays)
       \o ClosedBy(n, us[n], hour, FleetLoad(us, Units), faults[n], delays[n])

\* the hand-off counts after the records of batch have been handed off
RECURSIVE Count(_, _)
Count(fin, batch) ==
  IF batch = <<>> THEN fin
  ELSE Count([fin EXCEPT ![Head(batch).session_id] = @ + 1], Tail(batch))

NoReply == [op |-> "none", unit |-> 0, target |-> 0, result |-> "none"]

\* one tick of the fleet: every unit advances on the same tick boundary; the
\* Fault Model draws a fault only for a unit with an active session, and a
\* recovery delay only on fault entry
Tick(hours, faultDraws) ==
  /\ running
  /\ \E hour \in hours,
        faulting \in SUBSET {u \in Units : /\ units[u].status \in ActiveStatuses
                                          /\ TRUE \in faultDraws} :
       \E drawn \in [faulting -> 1..MaxRecovery] :
         LET faults == [u \in Units |-> u \in faulting]
             delays == [u \in Units |-> IF u \in faulting THEN drawn[u] ELSE 1]
             load == FleetLoad(units, Units)
         IN  /\ units' = [u \in Units |->
                            AdvanceUnit(units[u], hour, load, faults[u], delays[u])]
             /\ handoff' = ClosedByAll(NumUnits, units, hour, faults, delays)
             /\ finalized' = Count(finalized, handoff')
  /\ reply' = NoReply
  /\ UNCHANGED <<nextSessionId, running, listeners, intervalOn, telemetryData, evseUnits,
                 systemStats, isConnected>>
  /\ UNCHANGED <<keys, hubVars, wsVars, curve, chartData, chartUpdates>>

\* start_session without the upper limit on the target energy
StartSessionNoUpperLimit(u, target) ==
  /\ running
  /\ nextSessionId <= MaxSessions
  /\ IF units[u].status # "available"
     THEN /\ reply' = [op |-> "start", unit |-> u, target |-> target, result |-> "unit_busy"]
          /\ UNCHANGED <<units, nextSessionId>>
     ELSE IF ~(target > 0)
     THEN /\ reply' = [op |-> "start", unit |-> u, target |-> target, result |-> "invalid_target"]
          /\ UNCHANGED <<units, nextSessionId>>
     ELSE /\ units' = [units EXCEPT ![u] =
                         [IdleUnit EXCEPT !.status = "preparing",
                                          !.session = [id |-> nextSessionId,
                                                       target |-> target,
                                                       renewable |-> 0, utility |-> 0]]]
          /\ nextSessionId' = nextSessionId + 1
          /\ reply' = [op |-> "start", unit |-> u, target |-> target, result |-> "session"]
  /\ handoff' = <<>>
  /\ UNCHANGED <<finalized, running, listeners, intervalOn, telemetryData, evseUnits,
                 systemStats, isConnected>>
  /\ UNCHANGED <<keys, hubVars, wsVars, curve, chartData, chartUpdates>>

\* start_session(unit_id, target_energy_kwh)
StartSession(u, target) ==
  /\ running
  /\ nextSessionId <= MaxSessions
  /\ IF units[u].status # "available"
     THEN /\ reply' = [op |-> "start", unit |-> u, target |-> target, result |-> "unit_busy"]
          /\ UNCHANGED <<units, nextSessionId>>
     ELSE IF ~(target > 0 /\ target <= MaxTargetEnergy)
     THEN /\ reply' = [op |-> "start", unit |-> u, target |-> target, result |-> "invalid_target"]
          /\ UNCHANGED <<units, nextSessionId>>
     ELSE /\ units' = [units EXCEPT ![u] =
                         [IdleUnit EXCEPT !.status = "preparing",
                                          !.session = [id |-> nextSessionId,
                                                       target |-> target,
                                                       renewable |-> 0, utility |-> 0]]]
          /\ nextSessionId' = nextSessionId + 1
          /\ reply' = [op |-> "start", unit |-> u, target |-> target, result |-> "session"]
  /\ handoff' = <<>>
  /\ UNCHANGED <<finalized, running, listeners, intervalOn, telemetryData, evseUnits,
                 systemStats, isConnected>>
  /\ UNCHANGED <<keys, hubVars, wsVars, curve, chartData, chartUpdates>>

\* stop_session that only knows a charging unit to have a session
StopSessionOnlyCharging(u) ==
  /\ running
  /\ IF units[u].status # "charging"
     THEN /\ reply' = [op |-> "stop", unit |-> u, target |-> 0, result |-> "no_active_session"]
          /\ handoff' = <<>>
          /\ UNCHANGED <<units, finalized>>
     ELSE /\ units' = [units EXCEPT ![u] = IdleUnit]
          /\ handoff' = <<Finalize(u, units[u].session, "stopped")>>
          /\ finalized' = Count(finalized, handoff')
          /\ reply' = [op |-> "stop", unit |-> u, target |-> 0, result |-> "ok"]
  /\ UNCHANGED <<nextSessionId, running, listeners, intervalOn, telemetryData, evseUnits,
                 systemStats, isConnected>>
  /\ UNCHANGED <<keys, hubVars, wsVars, curve, chartData, chartUpdates>>

\* stop_session(unit_id)
StopSession(u) ==
  /\ running
  /\ IF units[u].session = NoSession
     THEN /\ reply' = [op |-> "stop", unit |-> u, target |-> 0, result |-> "no_active_session"]
          /\ handoff' = <<>>
          /\ UNCHANGED <<units, finalized>>
     ELSE /\ units' = [units EXCEPT ![u] = IdleUnit]
          /\ handoff' = <<Finalize(u, units[u].session, "stopped")>>
          /\ finalized' = Count(finalized, handoff')
          /\ reply' = [op |-> "stop", unit |-> u, target |-> 0, result |-> "ok"]
  /\ UNCHANGED <<nextSessionId, running, listeners, intervalOn, telemetryData, evseUnits,
                 systemStats, isConnected>>
  /\ UNCHANGED <<keys, hubVars, wsVars, curve, chartData, chartUpdates>>

RECURSIVE OpenSessions(_, _)
OpenSessions(n, us) ==
  IF n = 0 THEN <<>>
  ELSE OpenSessions(n - 1, us)
       \o (IF us[n].session # NoSession
           THEN <<Finalize(n, us[n].session, "shutdown")>> ELSE <<>>)

\* shutting the simulation down hands off every open session
Shutdown ==
  /\ running
  /\ running' = FALSE
  /\ handoff' = OpenSessions(NumUnits, units)
  /\ finalized' = Count(finalized, OpenSessions(NumUnits, units))
  /\ units' = [u \in Units |->
                 IF units[u].session # NoSession THEN IdleUnit ELSE units[u]]
  /\ reply' = NoReply
  /\ UNCHANGED <<nextSessionId, listeners, intervalOn, telemetryData, evseUnits,
                 systemStats, isConnected>>
  /\ UNCHANGED <<keys, hubVars, wsVars, curve, chartData, chartUpdates>>

\* the telemetry record unit u emits
Telemetry(u) ==
  [ unit_id |-> u,
    session_id |-> units[u].session.id,
    power_w |-> units[u].power,
    session_energy_kwh_renewable |-> units[u].session.renewable,
    session_energy_kwh_utility |-> units[u].session.utility,
    session_total_energy_kwh |-> TotalEnergy(units[u].session),
    source |-> units[u].source,
    status |-> units[u].status ]

HourDraws == {12, 19}

TargetDraws == {0, MaxTargetEnergy, MaxTargetEnergy + 1}

EngineTick == Tick(HourDraws, BOOLEAN)

(***************************************************************************)
(* Specifications                                                          *)
(***************************************************************************)

\* the state after construction, but for the arguments of the power curve
InitProgram ==
  /\ listeners = [p \in Paths |-> <<>>]
  /\ intervalOn = FALSE
  /\ telemetryData = NoData
  /\ evseUnits = NoUnits
  /\ systemStats = NoData
  /\ isConnected = FALSE
  /\ units = [u \in Units |-> IdleUnit]
  /\ handoff = <<>>
  /\ finalized = [id \in 1..MaxSessions |-> 0]
  /\ nextSessionId = 1
  /\ running = TRUE
  /\ reply = NoReply
  /\ keys = <<>>
  /\ tickNo = 0
  /\ held = [s \in ListenerNames |-> 0]
  /\ handed = [s \in ListenerNames |-> 0]
  /\ afterOff = {}
  /\ since = [s \in ListenerNames |-> Never]
  /\ ws = NoSocket
  /\ sock = [k \in SocketIds |-> "none"]
  /\ wsMounted = TRUE
  /\ wsTelemetry = NoData
  /\ wsUnits = NoUnits
  /\ wsStats = NoData
  /\ wsConnected = FALSE
  /\ wsError = "null"

Init == InitProgram /\ curve = NoData /\ chartData = <<>> /\ chartUpdates = 0

\* the power curve is called on any arguments of the bounded sets
InitCurve == InitProgram /\ curve \in CurveInputs /\ chartData = <<>> /\ chartUpdates = 0

\* the charging engine under ticks, faults and external commands
Next ==
  \/ EngineTick
  \/ \E u \in Units, target \in TargetDraws : StartSession(u, target)
  \/ \E u \in Units : StopSession(u)
  \/ Shutdown

Spec == Init /\ [][Next]_vars

\* the engine under a fault model that never faults and without stop commands
NoFaultTick == Tick(HourDraws, {FALSE})

NextNoFault ==
  \/ NoFaultTick
  \/ \E u \in Units, target \in TargetDraws : StartSession(u, target)

SpecNoFault == Init /\ [][NextNoFault]_vars /\ WF_vars(NoFaultTick)

\* the mock feed and the provider that listens to it
NextFeed ==
  \/ Mount
  \/ FeedTick
  \/ Unmount

SpecFeed == Init /\ [][NextFeed]_vars

\* MockFirebaseDB under any order of on(), off(), simulateData() and ticks
NextHub ==
  \/ HubStart
  \/ \E s \in ListenerNames, p \in HubPaths : HubOn(s, p)
  \/ \E p \in HubPaths : HubOff(p)
  \/ HubTick

SpecHub == Init /\ [][NextHub]_vars

\* WebSocketProvider and the messages of its socket
NextWs ==
  \/ WsConnect
  \/ WsConnectThrows
  \/ \E k \in SocketIds : WsOpen(k)
  \/ WsReceive
  \/ \E k \in SocketIds : WsClose(k)
  \/ \E k \in SocketIds : WsError(k)
  \/ WsDisconnect
  \/ WsUnmount

SpecWs == Init /\ [][NextWs]_vars

\* the Power Curve Model called over a session
NextCurve ==
  \/ CurveEvaluate
  \/ CurveAdvance

SpecCurve == InitCurve /\ [][NextCurve]_vars

\* the PowerChart under telemetry updates
NextChart == ChartTick

SpecChart == Init /\ [][NextChart]_vars

(***************************************************************************)
(* Properties of the telemetry feed                                        *)
(***************************************************************************)

\* C1: for every unit whose telemetry the provider holds, an active session
\* exists (session_id is not null) if and only if the status is preparing,
\* charging or finishing; an available or faulted unit has no session.
SessionIffActiveStatus ==
  \A i \in DOMAIN evseUnits :
    (evseUnits[i].telemetry.session_id # Null)
      <=> (evseUnits[i].telemetry.status \in ActiveStatuses)

\* a preparing unit and a charging unit with sessions next to an available
\* unit without one
SessionIffActiveStatusWitness ==
  /\ evseUnits # NoUnits
  /\ evseUnits[1].telemetry.status = "preparing"
  /\ evseUnits[1].telemetry.session_id # Null
  /\ evseUnits[2].telemetry.status = "charging"
  /\ evseUnits[2].telemetry.session_id # Null
  /\ evseUnits[3].telemetry.status = "available"
  /\ evseUnits[3].telemetry.session_id = Null

AllowedEdges ==
  { <<"available", "preparing">>, <<"preparing", "charging">>,
    <<"charging", "finishing">>, <<"finishing", "available">>,
    <<"preparing", "faulted">>, <<"charging", "faulted">>, <<"finishing", "faulted">>,
    <<"faulted", "available">>,
    <<"preparing", "available">>, <<"charging", "available">>,
    <<"finishing", "available">> }

\* C3: between two consecutive telemetry records of one unit the status
\* stays the same or changes along an allowed edge of the unit state machine.
StatusFollowsAllowedEdges ==
  [][\A i \in (DOMAIN evseUnits) \cap (DOMAIN evseUnits') :
       \/ evseUnits'[i].telemetry.status = evseUnits[i].telemetry.status
       \/ <<evseUnits[i].telemetry.status, evseUnits'[i].telemetry.status>>
            \in AllowedEdges]_vars

\* C10: two consecutive telemetry records of one unit that carry the same
\* session_id never show a decrease of the solar or of the grid energy total.
SessionEnergyNeverDecreases ==
  [][\A i \in (DOMAIN evseUnits) \cap (DOMAIN evseUnits') :
       (/\ evseUnits[i].telemetry.session_id # Null
        /\ evseUnits'[i].telemetry.session_id = evseUnits[i].telemetry.session_id)
       => /\ evseUnits'[i].telemetry.session_energy_kwh_solar
               >= evseUnits[i].telemetry.session_energy_kwh_solar
          /\ evseUnits'[i].telemetry.session_energy_kwh_grid
               >= evseUnits[i].telemetry.session_energy_kwh_grid]_vars

(***************************************************************************)
(* Properties of the charging engine                                       *)
(***************************************************************************)

\* C2 as stated: every unit's status is one of the five statuses, and the
\* status is available if and only if the unit has no active session.
AvailableIffNoSession ==
  \A u \in Units :
    /\ Telemetry(u).status \in Statuses
    /\ (Telemetry(u).status = "available") <=> (Telemetry(u).session_id = Null)

\* C2 as amended: every unit's status is one of the five statuses, and the
\* unit has no active session if and only if its status is available or
\* faulted.
NoSessionIffAvailableOrFaulted ==
  \A u \in Units :
    /\ Telemetry(u).status \in Statuses
    /\ (Telemetry(u).status \in {"available", "faulted"})
         <=> (Telemetry(u).session_id = Null)

\* a unit that has faulted out of a session next to a unit with a session
NoSessionIffAvailableOrFaultedWitness ==
  /\ units[1].status = "faulted"
  /\ units[1].session = NoSession
  /\ finalized[1] = 1
  /\ units[2].status = "charging"
  /\ units[2].session.id = 2

\* C4: the cost of every session record handed to the persistence
\* collaborator, whichever way the session closed, and the cost the
\* dashboard derives from every telemetry record, is renewable x 10 +
\* utility x 50; a session holds no cost of its own besides the two totals.
CostDerivedFromEnergy ==
  /\ \A i \in 1..Len(handoff) :
       /\ handoff[i].termination_reason \in TerminationReasons
       /\ handoff[i].total_cost = handoff[i].energy_renewable_kwh * 10
                                    + handoff[i].energy_utility_kwh * 50
  /\ \A u \in Units :
       /\ totalCost(Telemetry(u).session_energy_kwh_renewable,
                    Telemetry(u).session_energy_kwh_utility)
            = Telemetry(u).session_energy_kwh_renewable * 10
                + Telemetry(u).session_energy_kwh_utility * 50
       /\ DOMAIN units[u].session = {"id", "target", "renewable", "utility"}

\* a completed session that drew from both sources is handed off
CostDerivedFromEnergyWitness ==
  \E i \in 1..Len(handoff) :
    /\ handoff[i].termination_reason = "complete"
    /\ handoff[i].energy_renewable_kwh > 0
    /\ handoff[i].energy_utility_kwh > 0
    /\ handoff[i].total_cost > 0

\* C5: stop_session on a preparing, charging or finishing unit is accepted,
\* hands the session off with reason stopped and leaves the unit available;
\* on any other unit, so also right after an accepted stop, it returns
\* no_active_session and changes nothing of the unit or the engine.
StopSessionContract ==
  [][\A u \in Units :
       (reply'.op = "stop" /\ reply'.unit = u) =>
         IF units[u].status \in ActiveStatuses
         THEN /\ reply'.result = "ok"
              /\ units'[u].status = "available"
              /\ units'[u].session = NoSession
              /\ Len(handoff') = 1
              /\ handoff'[1].session_id = units[u].session.id
              /\ handoff'[1].unit_id = u
              /\ handoff'[1].termination_reason = "stopped"
              /\ handoff'[1].energy_renewable_kwh = units[u].session.renewable
              /\ handoff'[1].energy_utility_kwh = units[u].session.utility
              /\ \A v \in Units \ {u} : units'[v] = units[v]
         ELSE /\ reply'.result = "no_active_session"
              /\ units' = units
              /\ handoff' = <<>>
              /\ finalized' = finalized
              /\ nextSessionId' = nextSessionId
              /\ running' = running]_vars

\* a stop on unit 1 was refused after the session of unit 1 was handed off
StopSessionContractWitness ==
  /\ reply = [op |-> "stop", unit |-> 1, target |-> 0, result |-> "no_active_session"]
  /\ finalized[1] = 1
  /\ units[1] = IdleUnit
  /\ units[2].status = "preparing"

\* C6: start_session creates a session exactly when the unit is available
\* and the target is in (0, MaxTargetEnergy]; otherwise it returns unit_busy
\* or invalid_target and the unit's status, session and telemetry, and the
\* rest of the engine, are what they were.
StartSessionContract ==
  [][\A u \in Units :
       (reply'.op = "start" /\ reply'.unit = u) =>
         IF /\ units[u].status = "available"
            /\ reply'.target > 0
            /\ reply'.target <= MaxTargetEnergy
         THEN /\ reply'.result = "session"
              /\ units'[u].status = "preparing"
              /\ units'[u].session = [id |-> nextSessionId, target |-> reply'.target,
                                      renewable |-> 0, utility |-> 0]
              /\ nextSessionId' = nextSessionId + 1
              /\ \A v \in Units \ {u} : units'[v] = units[v]
         ELSE /\ reply'.result \in {"unit_busy", "invalid_target"}
              /\ (reply'.result = "unit_busy") <=> (units[u].status # "available")
              /\ units' = units
              /\ Telemetry(u)' = Telemetry(u)
              /\ nextSessionId' = nextSessionId
         ]_vars

\* a start on a finishing unit was refused with unit_busy
StartSessionContractWitness ==
  /\ reply.op = "start"
  /\ reply.result = "unit_busy"
  /\ reply.target = MaxTargetEnergy
  /\ units[reply.unit].status = "finishing"

\* the hand-off records of batch that carry session id
RecordsOf(batch, id) == {i \in 1..Len(batch) : batch[i].session_id = id}

\* C7: a fault during an active session hands the session off with reason
\* fault in that tick, with the energy totals it had, and leaves the unit
\* faulted with a recovery delay of 1..MaxRecovery ticks; a faulted unit is
\* changed by ticks only, never by a command or the shutdown; every tick (the
\* one step that answers no command and leaves the simulation running)
\* counts its remaining delay down by one or, the delay having elapsed, makes
\* it available; and while it is faulted it hands nothing off, draws no
\* power and its energy totals stay as they are.
FaultContract ==
  [][/\ \A u \in Units :
          /\ (units[u].status \in ActiveStatuses /\ units'[u].status = "faulted") =>
               /\ \E i \in RecordsOf(handoff', units[u].session.id) :
                    /\ handoff'[i].unit_id = u
                    /\ handoff'[i].termination_reason = "fault"
                    /\ handoff'[i].energy_renewable_kwh = units[u].session.renewable
                    /\ handoff'[i].energy_utility_kwh = units[u].session.utility
               /\ units'[u].session = NoSession
               /\ units'[u].recoveryLeft \in 1..MaxRecovery
          /\ (units[u].status = "faulted" /\ units'[u] # units[u]) =>
               /\ reply' = NoReply
               /\ running'
          /\ (units[u].status = "faulted" /\ units'[u].status = "faulted") =>
               /\ Telemetry(u)'.session_energy_kwh_renewable
                    = Telemetry(u).session_energy_kwh_renewable
               /\ Telemetry(u)'.session_energy_kwh_utility
                    = Telemetry(u).session_energy_kwh_utility
               /\ Telemetry(u)'.power_w = 0
               /\ \A i \in 1..Len(handoff') :
                    handoff' # handoff => handoff'[i].unit_id # u
     /\ (reply' = NoReply /\ running') =>
          \A u \in Units :
            units[u].status = "faulted" =>
              units'[u] = IF units[u].recoveryLeft > 1
                          THEN [units[u] EXCEPT !.recoveryLeft = @ - 1]
                          ELSE IdleUnit]_vars

\* unit 1 has just faulted out of a session that had drawn energy
FaultContractWitness ==
  /\ units[1].status = "faulted"
  /\ units[1].recoveryLeft = MaxRecovery
  /\ \E i \in 1..Len(handoff) :
       /\ handoff[i].unit_id = 1
       /\ handoff[i].termination_reason = "fault"
       /\ handoff[i].energy_renewable_kwh + handoff[i].energy_utility_kwh > 0

HandedOffExactlyOnce ==
  /\ [](\A id \in 1..MaxSessions :
          /\ finalized[id] <= 1
          /\ Cardinality({u \in Units : units[u].session.id = id}) + finalized[id]
               = IF id < nextSessionId THEN 1 ELSE 0)
  /\ [][/\ \A i \in 1..Len(handoff') :
            LET r == handoff'[i]
                u == handoff'[i].unit_id
            IN  /\ units[u].session.id = r.session_id
                /\ units'[u].session.id # r.session_id
                /\ RecordsOf(handoff', r.session_id) = {i}
                /\ r.energy_renewable_kwh = units[u].session.renewable
                /\ r.energy_utility_kwh = units[u].session.utility
                /\ r.termination_reason \in TerminationReasons
                /\ r.termination_reason = "stopped" =>
                     reply' = [op |-> "stop", unit |-> u, target |-> 0, result |-> "ok"]
                /\ r.termination_reason = "shutdown" => running /\ ~running'
                /\ r.termination_reason = "fault" =>
                     /\ units'[u].status = "faulted"
                     /\ reply' = NoReply
                     /\ running'
                /\ r.termination_reason = "complete" =>
                     /\ units[u].status = "finishing"
                     /\ units'[u].status = "available"
                     /\ reply' = NoReply
                     /\ running'
        /\ \A u \in Units :
             (units[u].session # NoSession /\ units'[u].session.id # units[u].session.id)
               => Cardinality(RecordsOf(handoff', units[u].session.id)) = 1]_vars

\* one tick closed both sessions, one by completion and one by a fault
HandedOffExactlyOnceWitness ==
  /\ Len(handoff) = 2
  /\ handoff[1].termination_reason = "complete"
  /\ handoff[2].termination_reason = "fault"
  /\ finalized[handoff[1].session_id] = 1
  /\ finalized[handoff[2].session_id] = 1

(***************************************************************************)
(* Properties of the delivery to listeners                                 *)
(***************************************************************************)

\* C11: a listener holds one batch; what it holds changes only when a new
\* batch is published, and then to that newest batch, whatever it held
\* before, and a listener that was handed the batch and took it holds the
\* newest batch afterwards: an older batch it held is dropped, not queued.
LatestValueWins ==
  [][\A s \in ListenerNames :
       /\ held'[s] # held[s] => (tickNo' = tickNo + 1 /\ held'[s] = tickNo')
       /\ (tickNo' # tickNo /\ handed'[s] >= 1 /\ s # "thrower") => held'[s] = tickNo']_vars

\* a listener registered before the first batch, with no failing or removing
\* listener about, holds the second batch
LatestValueWinsWitness ==
  /\ tickNo = 2
  /\ held["plain"] = 2
  /\ since["plain"] = [batch |-> 0, publishing |-> FALSE]
  /\ Registered(listeners, "plain")
  /\ since["thrower"] = Never
  /\ since["remover"] = Never

\* C12: nothing is handed to a listener by its registration, nor by any
\* step other than a publish, and a listener registered between two
\* publishes only ever receives batches published after its registration.
NoReplayOnRegistration ==
  [][\A s \in ListenerNames :
       /\ tickNo' = tickNo => (held'[s] = held[s] /\ handed'[s] = handed[s])
       /\ (held'[s] # held[s] /\ ~since'[s].publishing) => held'[s] > since'[s].batch]_vars

\* a listener registered after the first batch was published has received
\* the second
NoReplayOnRegistrationWitness ==
  /\ since["plain"] = [batch |-> 1, publishing |-> FALSE]
  /\ held["plain"] = 2
  /\ handed["plain"] = 1

\* C13: a listener that fails when it is handed a value is isolated: in
\* every publish, every other listener that is registered before and after
\* the publish receives the batch of that publish.
FailingListenerIsolated ==
  [][tickNo' = tickNo + 1 =>
       \A s \in ListenerNames \ {"thrower"} :
         (Registered(listeners, s) /\ Registered(listeners', s)) => held'[s] = tickNo']_vars

\* C14: registering and removing from inside a callback is safe: in every
\* publish no listener is invoked after the removal of its path's listeners
\* has returned, a listener added during the publish is not handed the batch
\* in progress, and no listener is handed the batch twice.
RegistrationDuringPublishSafe ==
  [][tickNo' = tickNo + 1 =>
       /\ afterOff' = {}
       /\ \A s \in ListenerNames :
            /\ since'[s] = [batch |-> tickNo', publishing |-> TRUE] => handed'[s] = 0
            /\ handed'[s] <= 1]_vars

(***************************************************************************)
(* Properties of the fleet statistics and of the attribution of records    *)
(***************************************************************************)

\* C15: every published fleet statistics value is computed from snapshots
\* that were all produced in the same tick: the entries of the map the
\* statistics were computed from all carry the same timestamp.
StatsFromOneTick ==
  wsStats # NoData =>
    /\ wsStats = calculateSystemStats(wsUnits)
    /\ \A a, b \in DOMAIN wsUnits :
         wsUnits[a].telemetry.timestamp = wsUnits[b].telemetry.timestamp

AttributedByOwnUnitId ==
  \A k \in DOMAIN wsUnits : wsUnits[k].telemetry.unit_id = k

\* C16: every field of the fleet statistics is a function of the current
\* snapshots: the totals are their sums, avg_temperature_c is the mean of
\* their temperature_c (to a tenth of a degree), and the unit counts are the
\* numbers of snapshots with that status.
StatsDerivedFromSnapshots ==
  (systemStats # NoData /\ evseUnits # NoUnits) =>
    LET ids == DOMAIN evseUnits
        n == Cardinality(ids)
    IN  /\ systemStats.total_power_w = SumOver(evseUnits, ids, "power_w")
        /\ systemStats.total_solar_energy_kwh
             = SumOver(evseUnits, ids, "session_energy_kwh_solar")
        /\ systemStats.total_grid_energy_kwh
             = SumOver(evseUnits, ids, "session_energy_kwh_grid")
        /\ systemStats.avg_temperature_c
             = (2 * SumOver(evseUnits, ids, "temperature_c") + n) \div (2 * n)
        /\ systemStats.available_units = CountWhere(evseUnits, ids, "status", "available")
        /\ systemStats.charging_units = CountWhere(evseUnits, ids, "status", "charging")
        /\ systemStats.faulted_units = CountWhere(evseUnits, ids, "status", "faulted")

\* C18: every tick emits one record for each unit of the fleet, and the
\* record stored for unit u carries unit_id = u.
OneRecordPerUnitWithItsId ==
  evseUnits # NoUnits =>
    /\ DOMAIN evseUnits = MockUnitIds
    /\ \A u \in DOMAIN evseUnits :
         /\ evseUnits[u].unit_id = u
         /\ evseUnits[u].telemetry.unit_id = u

(***************************************************************************)
(* Properties of the Power Curve Model                                     *)
(***************************************************************************)

TickAddsEnergyDelivered ==
  [][\A i \in (DOMAIN evseUnits) \cap (DOMAIN evseUnits') :
       (/\ evseUnits[i].telemetry.status = "charging"
        /\ evseUnits'[i].telemetry.status = "charging"
        /\ evseUnits[i].telemetry.session_id # Null
        /\ evseUnits'[i].telemetry.session_id = evseUnits[i].telemetry.session_id)
       => LET before == evseUnits[i].telemetry.session_energy_kwh_solar
                          + evseUnits[i].telemetry.session_energy_kwh_grid
              after == evseUnits'[i].telemetry.session_energy_kwh_solar
                         + evseUnits'[i].telemetry.session_energy_kwh_grid
              power == evseUnits'[i].telemetry.power_w
          IN  /\ 180 * (after - before) >= power - 180
              /\ 180 * (after - before) <= power + 180]_vars

\* C22: the energy source is a function of the inputs: two units that are
\* charging in the same tick (the same hour of day and the same fleet load)
\* with the same voltage, current and power are given the same source.
SourceDeterminedByInputs ==
  \A i, j \in DOMAIN evseUnits :
    (/\ evseUnits[i].telemetry.status = "charging"
     /\ evseUnits[j].telemetry.status = "charging"
     /\ evseUnits[i].telemetry.voltage_v = evseUnits[j].telemetry.voltage_v
     /\ evseUnits[i].telemetry.current_a = evseUnits[j].telemetry.current_a
     /\ evseUnits[i].telemetry.power_w = evseUnits[j].telemetry.power_w)
    => evseUnits[i].telemetry.energy_source = evseUnits[j].telemetry.energy_source

\* the units that are charging before a tick and are still in their session
\* after it
StillCharging ==
  {u \in Units : /\ units[u].status = "charging"
                 /\ units'[u].status \in {"charging", "finishing"}
                 /\ units'[u].session.id = units[u].session.id}

RECURSIVE PowerSum(_, _)
PowerSum(us, S) ==
  IF S = {} THEN 0
  ELSE LET u == CHOOSE x \in S : TRUE IN us[u].power + PowerSum(us, S \ {u})

\* C23: for every hour of the evening window and every fleet load above the
\* peak threshold the policy's derate is below 1.0; and in a tick of an
\* evening hour that starts with the fleet load above the threshold, every
\* unit that goes on charging is given less than the power its curve asks
\* for, whatever its source, and the powers of the fleet add up to strictly
\* less than the nominal powers of the charging units.
PeakDerateApplied ==
  /\ [](\A hour \in 17..19 :
          \A load \in (PeakLoadThreshold + 1)..(NumUnits * NominalPower) :
            EnergySourcePolicy(hour, load).derate < 10)
  /\ [][\A hour \in {h \in HourDraws : h >= 17 /\ h < 20} :
          (/\ reply' = NoReply
           /\ running'
           /\ FleetLoad(units, Units) > PeakLoadThreshold
           /\ StillCharging # {}
           /\ \A u \in StillCharging :
                units'[u].source = EnergySourcePolicy(hour, FleetLoad(units, Units)).source)
          => /\ \A u \in StillCharging :
                  units'[u].power < PowerCurve("charging", TotalEnergy(units[u].session),
                                               units[u].session.target, NominalPower)
             /\ PowerSum(units', Units) < FleetLoad(units, Units)]_vars

\* two units below 80 % of their target charge at half the nominal power
PeakDerateAppliedWitness ==
  /\ \A u \in {1, 2} :
       /\ units[u].status = "charging"
       /\ units[u].source = "utility"
       /\ TotalEnergy(units[u].session) * 5 < units[u].session.target * 4
       /\ units[u].power * 10 = NominalPower * PeakDerate
  /\ running

(***************************************************************************)
(* Properties of shutting down and of unmounting                           *)
(***************************************************************************)

\* C24: the step that shuts the feed down (the cleanup of the provider's
\* effect, which removes its listeners) hands off every session that is open
\* in the last telemetry with termination reason shutdown, and leaves no
\* session open in the state the provider shows afterwards.
CleanupFinalizesOpenSessions ==
  [][(/\ listeners # [p \in Paths |-> <<>>]
      /\ listeners' = [p \in Paths |-> <<>>])
     => \A i \in DOMAIN evseUnits :
          evseUnits[i].telemetry.session_id # Null
          => /\ \E k \in 1..Len(handoff') :
                  /\ handoff'[k].session_id = evseUnits[i].telemetry.session_id
                  /\ handoff'[k].termination_reason = "shutdown"
             /\ evseUnits'[i].telemetry.session_id = Null]_vars

\* C25: once the WebSocketProvider is unmounted, no socket that it created
\* is connecting or open.
NoSocketOpenAfterUnmount ==
  ~wsMounted => \A k \in SocketIds : ~Live(k)

(***************************************************************************)
(* Properties of the WebSocket connection and of the provider's map        *)
(***************************************************************************)

\* C27: at most one of the sockets the client created is connecting or open
\* at a time, every such socket is the one held in ws, and the close of a
\* socket that ws does not hold leaves isConnected alone while the socket
\* ws holds is open.
OneSocketHeldInWs ==
  /\ [](wsMounted =>
          /\ Cardinality({k \in SocketIds : Live(k)}) <= 1
          /\ \A k \in SocketIds : Live(k) => ws = k)
  /\ [][\A k \in SocketIds :
          (/\ wsMounted
           /\ sock[k] # "closed"
           /\ sock'[k] = "closed"
           /\ ws # NoSocket
           /\ ws # k
           /\ sock[ws] = "open")
          => (wsConnected' = wsConnected /\ ws' = ws)]_vars

\* C28: the statistics the provider shows are calculateSystemStats of the map
\* it shows, they exist whenever the map has an entry, and a message changes
\* one entry of the map, the one of the unit it is attributed to, to that
\* message's record, leaving every other entry as it was.
StatsFollowMap ==
  /\ [](/\ wsUnits # NoUnits => wsStats = calculateSystemStats(wsUnits)
        /\ wsUnits = NoUnits => wsStats = NoData)
  /\ [][wsTelemetry' # wsTelemetry \/ wsUnits' # wsUnits =>
          \E id \in DOMAIN wsUnits' :
            /\ wsUnits'[id] = [unit_id |-> id, telemetry |-> wsTelemetry']
            /\ DOMAIN wsUnits' = DOMAIN wsUnits \cup {id}
            /\ \A other \in DOMAIN wsUnits : other # id => wsUnits'[other] = wsUnits[other]]_vars

\* two units are in the map, the first with a record of a later tick than the
\* second, and the statistics count both
StatsFollowMapWitness ==
  /\ DOMAIN wsUnits = {"evse_unit_01", "evse_unit_02"}
  /\ wsUnits["evse_unit_01"].telemetry.timestamp > wsUnits["evse_unit_02"].telemetry.timestamp
  /\ wsTelemetry = wsUnits["evse_unit_01"].telemetry
  /\ wsStats.total_power_w
       = wsUnits["evse_unit_01"].telemetry.power_w + wsUnits["evse_unit_02"].telemetry.power_w
  /\ wsStats.total_power_w > 0

(***************************************************************************)
(* Properties of the power chart                                           *)
(***************************************************************************)

\* C26: after n updates the chart holds min(n, 20) points, never more than
\* 20, and they are the points of the last updates in arrival order; an
\* update appends its point and keeps the points before it in their order,
\* dropping the oldest when there are 20 already.
ChartKeepsLastTwenty ==
  /\ [](/\ Len(chartData) <= 20
        /\ Len(chartData) = Min(chartUpdates, 20)
        /\ \A i \in 1..Len(chartData) :
             chartData[i].time = chartUpdates - Len(chartData) + i)
  /\ [][chartUpdates' # chartUpdates =>
          LET dropped == IF Len(chartData) = 20 THEN 1 ELSE 0
          IN  /\ Len(chartData') = Len(chartData) + 1 - dropped
              /\ chartData'[Len(chartData')].time = chartUpdates'
              /\ \A i \in 1..(Len(chartData') - 1) :
                   chartData'[i] = chartData[i + dropped]]_vars

\* after 22 updates the chart starts at the point of the third, which
\* carries power
ChartKeepsLastTwentyWitness ==
  /\ chartUpdates = 22
  /\ Len(chartData) = 20
  /\ chartData[1].time = 3
  /\ chartData[1].power > 0

(***************************************************************************)
(* Totals against the buckets emitted                                      *)
(***************************************************************************)

\* C29: in every record of the feed session_total_energy_kwh is the sum of
\* the two buckets emitted with it, and in the statistics total_energy_kwh
\* is the sum of total_solar_energy_kwh and total_grid_energy_kwh, as the
\* 4-decimal values emitted.
TotalsAreSumOfBuckets ==
  /\ \A i \in DOMAIN evseUnits :
       evseUnits[i].telemetry.session_total_energy_kwh
         = evseUnits[i].telemetry.session_energy_kwh_solar
             + evseUnits[i].telemetry.session_energy_kwh_grid
  /\ systemStats # NoData =>
       systemStats.total_energy_kwh
         = systemStats.total_solar_energy_kwh + systemStats.total_grid_energy_kwh

(***************************************************************************)
(* The frame of ref(path).off()                                            *)
(***************************************************************************)

\* C30: an off() between two ticks empties the array of its path, whoever
\* registered the listeners in it, and leaves the array of every other path
\* as it was; once every path is empty, a tick of the interval invokes no
\* callback and changes nothing that a listener holds.
OffRemovesAllOnPathOnly ==
  /\ [][\A p \in Paths :
          (tickNo' = tickNo /\ Len(listeners'[p]) < Len(listeners[p])) =>
            /\ listeners'[p] = <<>>
            /\ \A q \in Paths \ {p} : listeners'[q] = listeners[q]]_vars
  /\ [][(listeners = [p \in Paths |-> <<>>] /\ tickNo' # tickNo) =>
          /\ handed' = [s \in ListenerNames |-> 0]
          /\ held' = held
          /\ afterOff' = {}
          /\ listeners' = listeners]_vars

\* two listeners were registered and removed by off() after the first tick,
\* and the second tick has run: plain still holds the first batch
OffRemovesAllOnPathOnlyWitness ==
  /\ listeners = [p \in Paths |-> <<>>]
  /\ tickNo = 2
  /\ since["plain"] # Never
  /\ since["thrower"] # Never
  /\ since["remover"] = Never
  /\ held["plain"] = 1
  /\ handed = [s \in ListenerNames |-> 0]

====
